---- MODULE Spec2Model ----
(***************************************************************************)
(* ErrorTK backend: the dataset file (data_manager.py), the upstream       *)
(* aggregation (scraper.py) and the shell operations that drive them       *)
(* (interactive_cli.py), as a state machine.                               *)
(***************************************************************************)
EXTENDS Integers, Sequences, FiniteSets, TLC

(* ------------------------------ bounds -------------------------------- *)
\* question ids are 1..MaxId
MaxId == 2
\* ids the upstream lists in one sync, over all its rolls, papers and chapters
MaxListed == 2
\* timestamped operations (syncs, status updates) in one run
MaxClock == 3
\* batch sizes the Settings menu is given
MaxBatch == 2
\* length of the id list handed to the batcher when it is checked alone
MaxQids == 5
\* length of the upstream 'correct' string
MaxCorrect == 3

(* ------------------------- program constants -------------------------- *)
\* BATCH_SIZE when the environment sets none
DefaultBatch == 50
\* JSON null / Python None for a timestamp; real timestamps are >= 1
None == 0

Ids == 1..MaxId
\* the three buckets of the dataset
BucketSet == {"simulation", "real", "famous"}
Statuses == {"new", "reviewing", "mastered"}

Min(a, b) == IF a < b THEN a ELSE b

VARIABLES
  file,              \* data/errors.json on disk
  BATCH_SIZE,        \* scraper.BATCH_SIZE
  envBATCH_SIZE,     \* os.environ['BATCH_SIZE']: {} when unset, {n} when set
  INCLUDE_COMMENTS,  \* scraper.INCLUDE_COMMENTS
  INCREMENTAL,       \* scraper.INCREMENTAL (fixed at import)
  SELECTED_SOURCES,  \* scraper.SELECTED_SOURCES (fixed at import)
  now,               \* the wall clock, read by datetime.now() and time.gmtime()
  last,              \* the operation that ran last and what it returned
  bt,                \* the frame of one get_question_details_batched call
  nq,                \* the frame of one _normalize_question call
  sh                 \* the shell: where main_menu / list_questions stand, their locals

config == <<BATCH_SIZE, envBATCH_SIZE, INCLUDE_COMMENTS, INCREMENTAL, SELECTED_SOURCES>>
vars == <<file, BATCH_SIZE, envBATCH_SIZE, INCLUDE_COMMENTS, INCREMENTAL,
          SELECTED_SOURCES, now, last, bt, nq, sh>>

(* ------------------------------ Store --------------------------------- *)
\* ErrorData(meta={"last_sync": None, "version": "1.0"}): no questions
EmptyData ==
  [meta |-> [last_sync |-> None], simulation |-> <<>>, real |-> <<>>, famous |-> <<>>]

\* the file when it does not exist, and when it holds no parseable dataset
\* (truncated, half written, not JSON)
MissingFile == [kind |-> "missing", data |-> EmptyData]
CorruptFile == [kind |-> "corrupt", data |-> EmptyData]
OkFile(d) == [kind |-> "ok", data |-> d]

\* load_data reading the real bucket where it should read famous
load_data_misreading_famous(f) ==
  IF f.kind = "ok"
  THEN [meta |-> f.data.meta, simulation |-> f.data.simulation,
        real |-> f.data.real, famous |-> f.data.real]
  ELSE EmptyData

\* load_data: the dataset of a parseable file, an empty dataset otherwise
load_data(f) ==
  IF f.kind = "missing" THEN EmptyData
  ELSE IF f.kind = "corrupt" THEN EmptyData
  ELSE [meta |-> f.data.meta,
        simulation |-> f.data.simulation,
        real |-> f.data.real,
        famous |-> f.data.famous]

\* save_data writing a fresh meta in place of the dataset's
save_data_resetting_meta(d) == OkFile([d EXCEPT !.meta = EmptyData.meta])

\* save_data: full rewrite of the file with the dataset
save_data(d) == OkFile(d)

\* index of the first record of category whose id is question_id, 0 when none
FirstMatch(category, question_id) ==
  IF \E i \in 1..Len(category) : category[i].id = question_id
  THEN CHOOSE i \in 1..Len(category) :
         /\ category[i].id = question_id
         /\ \A j \in 1..(i - 1) : category[j].id # question_id
  ELSE 0

\* the scan run over famous, real, simulation
FoundIn_scanning_backwards(data, question_id) ==
  IF FirstMatch(data.famous, question_id) > 0 THEN "famous"
  ELSE IF FirstMatch(data.real, question_id) > 0 THEN "real"
  ELSE IF FirstMatch(data.simulation, question_id) > 0 THEN "simulation"
  ELSE "none"

\* the category the scan stops in: the first of simulation, real, famous that
\* holds question_id, "none" when none does
FoundIn(data, question_id) ==
  IF FirstMatch(data.simulation, question_id) > 0 THEN "simulation"
  ELSE IF FirstMatch(data.real, question_id) > 0 THEN "real"
  ELSE IF FirstMatch(data.famous, question_id) > 0 THEN "famous"
  ELSE "none"

\* the assignment of q.last_reviewed left out
Mark_without_timestamp(data, question_id, new_status, timestamp) ==
  LET c == FoundIn(data, question_id)
      i == FirstMatch(data[c], question_id)
  IN [data EXCEPT ![c][i].user_status = new_status]

\* q.user_status = new_status; q.last_reviewed = timestamp, on the first match
Mark(data, question_id, new_status, timestamp) ==
  LET c == FoundIn(data, question_id)
      i == FirstMatch(data[c], question_id)
  IN [data EXCEPT ![c][i].user_status = new_status,
                  ![c][i].last_reviewed = timestamp]

\* update_question_status saving whether or not it found the id
update_question_status_saving_always(f, question_id, new_status, timestamp) ==
  LET data == load_data(f)
      found == FoundIn(data, question_id) # "none"
  IN IF found
     THEN [file |-> save_data(Mark(data, question_id, new_status, timestamp)),
           ret |-> TRUE, wrote |-> TRUE]
     ELSE [file |-> save_data(data), ret |-> FALSE, wrote |-> TRUE]

\* update_question_status: [file after, returned value, whether it wrote]
update_question_status(f, question_id, new_status, timestamp) ==
  LET data == load_data(f)
      found == FoundIn(data, question_id) # "none"
  IN IF found
     THEN [file |-> save_data(Mark(data, question_id, new_status, timestamp)),
           ret |-> TRUE, wrote |-> TRUE]
     ELSE [file |-> f, ret |-> FALSE, wrote |-> FALSE]

(* ----------------------------- Batcher -------------------------------- *)
\* the batch size get_question_details_batched uses when it is given none:
\* int(os.environ.get('BATCH_SIZE', str(BATCH_SIZE)))
EffectiveBatch(env, module_value) ==
  IF env = {} THEN module_value ELSE CHOOSE n \in env : TRUE

\* get_question_details answering with the ids asked although the request failed
get_question_details_ignoring_failure(qids, failed) == qids

\* get_question_details: no request for an empty list; otherwise one request,
\* whose answer is one payload per id asked (a payload is written as its id),
\* or nothing when make_request returned None
get_question_details(qids, failed) ==
  IF qids = <<>> THEN <<>>
  ELSE IF failed THEN <<>>
  ELSE qids

\* the frame of get_question_details_batched before its loop
BatchFrame(qids, batch_size) ==
  [qids |-> qids, batch_size |-> batch_size, i |-> 0,
   all_details |-> <<>>, calls |-> <<>>, failed |-> <<>>]

\* the loop stepping by batch_size + 1: the id after each chunk is skipped
BatchIter_skipping(fr, failed) ==
  LET batch == SubSeq(fr.qids, fr.i + 1, Min(fr.i + fr.batch_size, Len(fr.qids)))
      details == get_question_details(batch, failed)
  IN [fr EXCEPT !.all_details = IF details # <<>> THEN @ \o details ELSE @,
                !.calls = Append(@, batch),
                !.failed = Append(@, failed),
                !.i = @ + fr.batch_size + 1]

\* one iteration of `for i in range(0, len(qids), batch_size)`; calls logs the
\* chunks handed to get_question_details and failed whether each request failed
BatchIter(fr, failed) ==
  LET batch == SubSeq(fr.qids, fr.i + 1, Min(fr.i + fr.batch_size, Len(fr.qids)))
      details == get_question_details(batch, failed)
  IN [fr EXCEPT !.all_details = IF details # <<>> THEN @ \o details ELSE @,
                !.calls = Append(@, batch),
                !.failed = Append(@, failed),
                !.i = @ + fr.batch_size]

\* the loop run to its end; n counts the requests of the whole sync so far and
\* request number k fails when k is in fail
RECURSIVE BatchRun(_, _, _)
BatchRun(fr, n, fail) ==
  IF fr.i >= Len(fr.qids) THEN [all_details |-> fr.all_details, n |-> n]
  ELSE BatchRun(BatchIter(fr, (n + 1) \in fail), n + 1, fail)

get_question_details_batched(qids, batch_size, n, fail) ==
  BatchRun(BatchFrame(qids, batch_size), n, fail)

(* ---------------------------- Normalizer ------------------------------ *)
_normalize_question(question_data, source_type) ==
  [id |-> question_data, user_status |-> "new", last_reviewed |-> None,
   comments |-> <<>>, source |-> source_type]

\* a value a payload holds under a key: the key is absent, JSON null, or a
\* string, written as the sequence of its characters
Absent == [kind |-> "absent"]
Null == [kind |-> "null"]
Str(s) == [kind |-> "str", s |-> s]

\* dict.get(key, default): the default only when the key is absent
Get(value, default) == IF value.kind = "absent" THEN default ELSE value

\* str(x): a string is itself, None is "None"
str(value) == IF value.kind = "null" THEN <<"N", "o", "n", "e">> ELSE value.s

\* the characters str.isdigit() accepts: the ASCII digits, which int() reads,
\* and digits such as SUPERSCRIPT TWO (written "sup2"), which int() rejects
AsciiDigits == {"0", "1", "3", "5"}
OtherDigits == {"sup2"}
int == [c \in AsciiDigits |->
          IF c = "0" THEN 0 ELSE IF c = "1" THEN 1 ELSE IF c = "3" THEN 3 ELSE 5]

isspace(c) == c = " "

RECURSIVE lstrip(_)
lstrip(s) == IF s # <<>> /\ isspace(Head(s)) THEN lstrip(Tail(s)) ELSE s
RECURSIVE rstrip(_)
rstrip(s) ==
  IF s # <<>> /\ isspace(s[Len(s)]) THEN rstrip(SubSeq(s, 1, Len(s) - 1)) ELSE s
\* str.strip()
strip(s) == rstrip(lstrip(s))

\* str.isdigit(): non-empty and every character a digit
isdigit(s) == s # <<>> /\ \A i \in 1..Len(s) : s[i] \in AsciiDigits \cup OtherDigits

\* str.upper(), character by character
upper(s) ==
  [i \in 1..Len(s) |->
     IF s[i] = "b" THEN "B" ELSE IF s[i] = "d" THEN "D"
     ELSE IF s[i] = "o" THEN "O" ELSE IF s[i] = "n" THEN "N"
     ELSE IF s[i] = "e" THEN "E" ELSE s[i]]

RECURSIVE split(_, _)
\* str.split(','): the pieces between the commas, empty pieces kept; cur is
\* the piece being read
split(s, cur) ==
  IF s = <<>> THEN <<cur>>
  ELSE IF Head(s) = "," THEN <<cur>> \o split(Tail(s), <<>>)
  ELSE split(Tail(s), Append(cur, Head(s)))

labels == <<"A", "B", "C", "D">>

RECURSIVE DecodeDigits(_)
\* `for digit in correct_raw`: the label of each digit whose index is in range
DecodeDigits(correct_raw) ==
  IF correct_raw = <<>> THEN <<>>
  ELSE LET idx == int[Head(correct_raw)] - 1
       IN (IF 0 <= idx /\ idx < Len(labels) THEN << <<labels[idx + 1]>> >> ELSE <<>>)
            \o DecodeDigits(Tail(correct_raw))

\* the content and answer _normalize_question gives a payload, or raised when
\* int(digit) raises ValueError; a label is the sequence of its characters
NormalizeFields(question_data) ==
  LET content == Get(question_data.title, Str(<<>>))
      correct_raw == strip(str(Get(question_data.correct, Str(<<>>))))
  IN IF correct_raw = <<>>
     THEN [raised |-> FALSE, content |-> content, answer |-> <<>>]
     ELSE IF isdigit(correct_raw)
     THEN IF \E i \in 1..Len(correct_raw) : correct_raw[i] \notin DOMAIN int
          THEN [raised |-> TRUE, content |-> content, answer |-> <<>>]
          ELSE [raised |-> FALSE, content |-> content,
                answer |-> DecodeDigits(correct_raw)]
     ELSE LET pieces == split(correct_raw, <<>>)
          IN [raised |-> FALSE, content |-> content,
              answer |-> [i \in 1..Len(pieces) |-> upper(strip(pieces[i]))]]

\* the frame of a call _normalize_question(question_data, ...) before it runs
NormFrame(question_data) ==
  [question_data |-> question_data, called |-> FALSE, raised |-> FALSE,
   content |-> Null, answer |-> <<>>]
NoCall == NormFrame([title |-> Absent, correct |-> Absent])

\* get_comments: the "content" of each comment, or [] when the request failed
get_comments(question_id, failed) ==
  IF failed THEN <<>> ELSE <<"comment">>

(* ---------------------------- Aggregator ------------------------------ *)
\* _load_existing_ids: the ids of each bucket of the local file; empty sets
\* when the file is missing or cannot be read
_load_existing_ids(f) ==
  [k \in BucketSet |->
     IF f.kind = "ok" THEN {f.data[k][i].id : i \in 1..Len(f.data[k])} ELSE {}]

NoExisting == [k \in BucketSet |-> {}]

\* a walker's running state: the questions collected, the number of requests
\* issued so far in this sync, the ids asked from the details endpoint
Walk(n) == [qs |-> <<>>, n |-> n, requested |-> {}]

\* `for q_data in details`: the comments request (when INCLUDE_COMMENTS),
\* the normalisation, the append
RECURSIVE CollectDetails(_, _, _, _, _, _)
CollectDetails(w, details, k, source_type, include_comments, fail) ==
  IF k > Len(details) THEN w
  ELSE LET n1 == IF include_comments THEN w.n + 1 ELSE w.n
           comments == IF include_comments
                       THEN get_comments(details[k], n1 \in fail) ELSE <<>>
           normalized_q == [_normalize_question(details[k], source_type)
                              EXCEPT !.comments = comments]
       IN CollectDetails([w EXCEPT !.qs = Append(@, normalized_q), !.n = n1],
                         details, k + 1, source_type, include_comments, fail)

\* one roll, paper or chapter: the incremental filter, the batched fetch, the
\* collection of its questions
WalkNode(w, node_qids, existing, source_type, batch_size, include_comments, fail) ==
  LET qids == IF existing # {}
              THEN SelectSeq(node_qids, LAMBDA q : q \notin existing)
              ELSE node_qids
  IN IF qids = <<>> THEN w
     ELSE LET r == get_question_details_batched(qids, batch_size, w.n, fail)
              w1 == [w EXCEPT !.n = r.n,
                              !.requested = @ \cup {qids[i] : i \in 1..Len(qids)}]
          IN CollectDetails(w1, r.all_details, 1, source_type, include_comments, fail)

RECURSIVE WalkNodes(_, _, _, _, _, _, _, _)
WalkNodes(w, nodes, k, existing, source_type, batch_size, include_comments, fail) ==
  IF k > Len(nodes) THEN w
  ELSE WalkNodes(WalkNode(w, nodes[k].qids, existing, source_type, batch_size,
                          include_comments, fail),
                 nodes, k + 1, existing, source_type, batch_size,
                 include_comments, fail)

NodesOf(listing, source_type) ==
  SelectSeq(listing, LAMBDA node : node.src = source_type)

\* fetch_simulation_errors: the paper list (one request), then every roll
fetch_simulation_errors(existing, listing, n, batch_size, include_comments, fail) ==
  IF (n + 1) \in fail THEN Walk(n + 1)
  ELSE WalkNodes(Walk(n + 1), NodesOf(listing, "simulation"), 1, existing,
                 "simulation", batch_size, include_comments, fail)

\* fetch_real_exam_errors: the paper list (one request), then every paper
fetch_real_exam_errors(existing, listing, n, batch_size, include_comments, fail) ==
  IF (n + 1) \in fail THEN Walk(n + 1)
  ELSE WalkNodes(Walk(n + 1), NodesOf(listing, "real"), 1, existing,
                 "real", batch_size, include_comments, fail)

\* fetch_famous_errors: the class list, then for the class its books (a failed
\* or empty answer falls back to the Default Book) and the book's chapters (a
\* failed answer skips the book), then every chapter
fetch_famous_errors(existing, listing, n, batch_size, include_comments, fail) ==
  IF (n + 1) \in fail THEN Walk(n + 1)
  ELSE IF NodesOf(listing, "famous") = <<>> THEN Walk(n + 1)
  ELSE IF (n + 3) \in fail THEN Walk(n + 3)
  ELSE WalkNodes(Walk(n + 3), NodesOf(listing, "famous"), 1, existing,
                 "famous", batch_size, include_comments, fail)

\* fetch_all_errors: a fresh dataset stamped timestamp, filled by the walkers
\* of the selected sources
fetch_all_errors(f, incremental, selected, batch_size, include_comments, listing, fail, timestamp) ==
  LET existing == IF incremental THEN _load_existing_ids(f) ELSE NoExisting
      sim == IF "simulation" \in selected
             THEN fetch_simulation_errors(existing["simulation"], listing, 0,
                                          batch_size, include_comments, fail)
             ELSE Walk(0)
      rea == IF "real" \in selected
             THEN fetch_real_exam_errors(existing["real"], listing, sim.n,
                                         batch_size, include_comments, fail)
             ELSE Walk(sim.n)
      fam == IF "famous" \in selected
             THEN fetch_famous_errors(existing["famous"], listing, rea.n,
                                      batch_size, include_comments, fail)
             ELSE Walk(rea.n)
  IN [data |-> [meta |-> [last_sync |-> timestamp],
                simulation |-> sim.qs, real |-> rea.qs, famous |-> fam.qs],
      requested |-> [k \in BucketSet |->
                       IF k = "simulation" THEN sim.requested
                       ELSE IF k = "real" THEN rea.requested
                       ELSE fam.requested],
      n |-> fam.n]

(* ------------------------------- Shell -------------------------------- *)
\* sync_data leaving the file alone when nothing was fetched
sync_data_skipping_empty(f, incremental, selected, batch_size, include_comments, listing, fail, timestamp, exc) ==
  LET new_data == fetch_all_errors(f, incremental, selected, batch_size,
                                   include_comments, listing, fail, timestamp)
  IN IF exc = "fetch"
     THEN [file |-> f, ret |-> FALSE, wrote |-> FALSE, requested |-> NoExisting,
           issued |-> 0]
     ELSE IF exc = "makedirs"
     THEN [file |-> f, ret |-> FALSE, wrote |-> FALSE,
           requested |-> new_data.requested, issued |-> new_data.n]
     ELSE IF exc = "dump"
     THEN [file |-> CorruptFile, ret |-> FALSE, wrote |-> TRUE,
           requested |-> new_data.requested, issued |-> new_data.n]
     ELSE IF \A k \in BucketSet : new_data.data[k] = <<>>
     THEN [file |-> f, ret |-> TRUE, wrote |-> FALSE,
           requested |-> new_data.requested, issued |-> new_data.n]
     ELSE [file |-> OkFile(new_data.data), ret |-> TRUE, wrote |-> TRUE,
           requested |-> new_data.requested, issued |-> new_data.n]

\* sync_data: [file after, returned value, whether the file was opened for
\* writing, ids asked from the details endpoint, requests issued]. exc says
\* where an
\* exception is raised: "none"; "fetch" (inside fetch_all_errors, e.g. int()
\* on a malformed qids string); "makedirs" (os.makedirs); "dump" (json.dump,
\* after open(DATA_FILE, 'w') has truncated the file, e.g. an unpaired
\* surrogate in a title, or a full disk)
sync_data(f, incremental, selected, batch_size, include_comments, listing, fail, timestamp, exc) ==
  LET new_data == fetch_all_errors(f, incremental, selected, batch_size,
                                   include_comments, listing, fail, timestamp)
  IN IF exc = "fetch"
     THEN [file |-> f, ret |-> FALSE, wrote |-> FALSE, requested |-> NoExisting,
           issued |-> 0]
     ELSE IF exc = "makedirs"
     THEN [file |-> f, ret |-> FALSE, wrote |-> FALSE,
           requested |-> new_data.requested, issued |-> new_data.n]
     ELSE IF exc = "dump"
     THEN [file |-> CorruptFile, ret |-> FALSE, wrote |-> TRUE,
           requested |-> new_data.requested, issued |-> new_data.n]
     ELSE [file |-> OkFile(new_data.data), ret |-> TRUE, wrote |-> TRUE,
           requested |-> new_data.requested, issued |-> new_data.n]

(* ------------------------- environment inputs ------------------------- *)
RECURSIVE SeqsUpTo(_, _)
\* the sequences over S of length at most n
SeqsUpTo(S, n) ==
  IF n = 0 THEN {<<>>}
  ELSE LET shorter == SeqsUpTo(S, n - 1)
       IN shorter \cup {Append(s, x) : s \in shorter, x \in S}

\* a node of the upstream listing: the bucket it is listed under and its ids
Nodes == [src : BucketSet, qids : SeqsUpTo(Ids, MaxListed) \ {<<>>}]

RECURSIVE TotalIds(_)
TotalIds(listing) ==
  IF listing = <<>> THEN 0 ELSE Len(Head(listing).qids) + TotalIds(Tail(listing))

\* what the upstream can list in one sync: rolls, papers and chapters in walk
\* order, with at most MaxListed ids in all
Listings == {listing \in SeqsUpTo(Nodes, MaxListed) : TotalIds(listing) <= MaxListed}
ListedIds(listing, k) ==
  UNION {{listing[j].qids[i] : i \in 1..Len(listing[j].qids)} :
           j \in {j \in 1..Len(listing) : listing[j].src = k}}

\* which requests of a sync of n requests fail: none, any single one, all
FailSets(n) == {{}} \cup {{k} : k \in 1..n} \cup {1..n}

\* the shell's locals: pc is the prompt it waits at ("off" when the menu is
\* not running), current_data is main_menu's dataset, all_questions and shown
\* are list_questions' flattened list and the summaries it printed last,
\* selected the index of the question whose details are open, input whether
\* the input handled last was accepted ("ok") or answered with an
\* invalid-input message ("invalid")
ShellOff ==
  [pc |-> "off", current_data |-> EmptyData, all_questions |-> <<>>,
   shown |-> <<>>, selected |-> 0, input |-> "ok"]

(* --------------------------- state machine ---------------------------- *)
Idle == BatchFrame(<<>>, 1)

\* the values of the SOURCES environment variable the runs start with
SourceChoices == {BucketSet, {"simulation"}}

\* what is remembered of the last store operation (a sync or a status
\* update): its arguments and result. For a sync: whether every request
\* succeeded (plain), whether it asked the details endpoint for an id the
\* local bucket already held (refetched), and the selected buckets whose local
\* ids the upstream all listed again (covering). For an update: whether it
\* repeats the call before it (twice). For a sync again: whether no roll,
\* paper or chapter of the listing held an id twice (once), whether every
\* request it issued failed (allfailed), and whether the file held questions
\* before it and holds a dataset without any after it (emptied)
LastInit ==
  [op |-> "init", ret |-> FALSE, wrote |-> FALSE, id |-> 0, status |-> "new",
   exc |-> "none", plain |-> FALSE, refetched |-> FALSE, covering |-> {},
   twice |-> FALSE, once |-> FALSE, allfailed |-> FALSE, emptied |-> FALSE]

Init ==
  /\ file \in {MissingFile, CorruptFile}
  /\ envBATCH_SIZE = {}
  /\ BATCH_SIZE = DefaultBatch
  /\ INCLUDE_COMMENTS = FALSE
  /\ INCREMENTAL \in BOOLEAN
  /\ SELECTED_SOURCES \in SourceChoices
  /\ now = 0
  /\ last = LastInit
  /\ bt = Idle
  /\ nq = NoCall
  /\ sh = ShellOff

\* the shell's status action (n / r / m) on a question: Store.updateStatus
UpdateStatus ==
  \E q \in Ids, s \in Statuses :
    /\ now < MaxClock
    /\ \E r \in {update_question_status(file, q, s, now + 1)} :
          /\ file' = r.file
          /\ last' = [LastInit EXCEPT !.op = "update", !.ret = r.ret,
                        !.wrote = r.wrote, !.id = q, !.status = s,
                        !.twice = /\ last.op = "update" /\ last.ret
                                  /\ last.id = q /\ last.status = s]
    /\ now' = now + 1
    /\ UNCHANGED <<config, bt, nq, sh>>

\* the requests a sync issues when none fails
Requests(listing) ==
  fetch_all_errors(file, INCREMENTAL, SELECTED_SOURCES,
                   EffectiveBatch(envBATCH_SIZE, BATCH_SIZE),
                   INCLUDE_COMMENTS, listing, {}, now + 1).n

Sync(listing, fail, exc) ==
  /\ now < MaxClock
  /\ \E r \in {sync_data(file, INCREMENTAL, SELECTED_SOURCES,
                          EffectiveBatch(envBATCH_SIZE, BATCH_SIZE),
                          INCLUDE_COMMENTS, listing, fail, now + 1, exc)} :
        /\ file' = r.file
        /\ last' = [LastInit EXCEPT !.op = "sync", !.ret = r.ret,
                      !.wrote = r.wrote, !.exc = exc,
                      !.plain = (fail = {} /\ exc = "none"),
                      !.covering =
                        {k \in SELECTED_SOURCES :
                           _load_existing_ids(file)[k] \subseteq ListedIds(listing, k)},
                      !.refetched =
                        \E k \in BucketSet :
                          r.requested[k] \cap _load_existing_ids(file)[k] # {},
                      !.once =
                        \A j \in 1..Len(listing) :
                          \A a, b \in 1..Len(listing[j].qids) :
                            listing[j].qids[a] = listing[j].qids[b] => a = b,
                      !.allfailed =
                        /\ exc = "none"
                        /\ r.issued >= 1
                        /\ 1..r.issued \subseteq fail,
                      !.emptied =
                        /\ _load_existing_ids(file) # NoExisting
                        /\ r.file.kind = "ok"
                        /\ _load_existing_ids(r.file) = NoExisting]
  /\ now' = now + 1
  /\ UNCHANGED <<config, bt, nq, sh>>

\* main menu 1: a sync that runs to its end
SyncCompletes ==
  \E listing \in Listings :
    \E fail \in FailSets(Requests(listing)) : Sync(listing, fail, "none")

\* main menu 1: a sync in which an exception is raised
SyncRaises ==
  \E exc \in {"fetch", "makedirs", "dump"} : Sync(<<>>, {}, exc)

Next ==
  \/ UpdateStatus
  \/ SyncCompletes
  \/ SyncRaises

Spec == Init /\ [][Next]_vars

(* ------------------- the batcher, one call at a time ------------------ *)
\* a call get_question_details_batched(qids, batch_size) about to start
InitBatch ==
  /\ file = MissingFile
  /\ envBATCH_SIZE = {}
  /\ BATCH_SIZE = DefaultBatch
  /\ INCLUDE_COMMENTS = FALSE
  /\ INCREMENTAL = FALSE
  /\ SELECTED_SOURCES = BucketSet
  /\ now = 0
  /\ last = LastInit
  /\ nq = NoCall
  /\ sh = ShellOff
  /\ bt \in {BatchFrame(qids, batch_size) :
               qids \in SeqsUpTo(Ids, MaxQids), batch_size \in 1..MaxBatch}

\* one iteration of the loop whose request succeeds
BatchRequestOk ==
  /\ bt.i < Len(bt.qids)
  /\ bt' = BatchIter(bt, FALSE)
  /\ UNCHANGED <<file, config, now, last, nq, sh>>

\* one iteration of the loop whose request fails (make_request returns None)
BatchRequestFails ==
  /\ bt.i < Len(bt.qids)
  /\ bt' = BatchIter(bt, TRUE)
  /\ UNCHANGED <<file, config, now, last, nq, sh>>

NextBatch == BatchRequestOk \/ BatchRequestFails

SpecBatch == InitBatch /\ [][NextBatch]_vars

\* the loop has ended: all_details is returned
BatchDone == bt.i >= Len(bt.qids)

(* ----------------- the normalizer, one call at a time ----------------- *)
\* the characters of the upstream 'correct' strings
Chars == AsciiDigits \cup OtherDigits \cup {"b", "d", ",", " "}
\* the upstream values of 'title' and of 'correct'
Titles == {Absent, Null, Str(<<>>), Str(<<"t">>)}
Corrects == {Absent, Null} \cup {Str(s) : s \in SeqsUpTo(Chars, MaxCorrect)}

\* a call _normalize_question(question_data, ...) about to start
InitNorm ==
  /\ file = MissingFile
  /\ envBATCH_SIZE = {}
  /\ BATCH_SIZE = DefaultBatch
  /\ INCLUDE_COMMENTS = FALSE
  /\ INCREMENTAL = FALSE
  /\ SELECTED_SOURCES = BucketSet
  /\ now = 0
  /\ last = LastInit
  /\ bt = Idle
  /\ sh = ShellOff
  /\ nq \in {NormFrame([title |-> t, correct |-> c]) : t \in Titles, c \in Corrects}

\* the call returns the normalized question
NormalizeReturns ==
  /\ ~nq.called
  /\ ~NormalizeFields(nq.question_data).raised
  /\ nq' = [nq EXCEPT !.called = TRUE,
                      !.content = NormalizeFields(nq.question_data).content,
                      !.answer = NormalizeFields(nq.question_data).answer]
  /\ UNCHANGED <<file, config, now, last, bt, sh>>

\* the call raises ValueError
NormalizeRaises ==
  /\ ~nq.called
  /\ NormalizeFields(nq.question_data).raised
  /\ nq' = [nq EXCEPT !.called = TRUE, !.raised = TRUE]
  /\ UNCHANGED <<file, config, now, last, bt, sh>>

NextNorm == NormalizeReturns \/ NormalizeRaises

SpecNorm == InitNorm /\ [][NextNorm]_vars

(* ------------------------- the interactive shell ---------------------- *)
\* what is typed at the batch-size prompt: text int() rejects, or an integer
BatchInputs ==
  {[numeric |-> FALSE, n |-> 0]} \cup {[numeric |-> TRUE, n |-> k] : k \in -1..MaxBatch}

\* the batch size accepted as soon as it is not negative
ParseBatchSize_accepting_zero(val) ==
  IF ~val.numeric THEN [ok |-> FALSE, bs |-> 0]
  ELSE IF val.n < 0 THEN [ok |-> FALSE, bs |-> 0]
  ELSE [ok |-> TRUE, bs |-> val.n]

\* settings menu 2: bs = int(val); if bs <= 0: raise ValueError
ParseBatchSize(val) ==
  IF ~val.numeric THEN [ok |-> FALSE, bs |-> 0]
  ELSE IF val.n <= 0 THEN [ok |-> FALSE, bs |-> 0]
  ELSE [ok |-> TRUE, bs |-> val.n]

\* list_questions: the three buckets in one list
all_questions(data) == data.simulation \o data.real \o data.famous

\* main_menu starts: Loading local data
InitShell ==
  /\ file = MissingFile
  /\ envBATCH_SIZE = {}
  /\ BATCH_SIZE = DefaultBatch
  /\ INCLUDE_COMMENTS = FALSE
  /\ INCREMENTAL = FALSE
  /\ SELECTED_SOURCES = BucketSet
  /\ now = 0
  /\ last = LastInit
  /\ bt = Idle
  /\ nq = NoCall
  /\ sh = [ShellOff EXCEPT !.pc = "main", !.current_data = load_data(file)]

\* main menu 0 / settings menu 4
MenuSettings ==
  /\ sh.pc = "main"
  /\ sh' = [sh EXCEPT !.pc = "settings", !.input = "ok"]
  /\ UNCHANGED <<file, config, now, last, bt, nq>>

SettingsBack ==
  /\ sh.pc = "settings"
  /\ sh' = [sh EXCEPT !.pc = "main", !.input = "ok"]
  /\ UNCHANGED <<file, config, now, last, bt, nq>>

\* settings menu 2 with a positive integer: set_runtime_options(batch_size=bs)
SetBatchSize ==
  \E val \in BatchInputs :
    /\ sh.pc = "settings"
    /\ ParseBatchSize(val).ok
    /\ BATCH_SIZE' = ParseBatchSize(val).bs
    /\ envBATCH_SIZE' = {ParseBatchSize(val).bs}
    /\ sh' = [sh EXCEPT !.input = "ok"]
    /\ UNCHANGED <<file, INCLUDE_COMMENTS, INCREMENTAL, SELECTED_SOURCES, now,
                   last, bt, nq>>

\* settings menu 2 with anything else: the ValueError is caught, a message
RejectBatchSize ==
  \E val \in BatchInputs :
    /\ sh.pc = "settings"
    /\ ~ParseBatchSize(val).ok
    /\ sh' = [sh EXCEPT !.input = "invalid"]
    /\ UNCHANGED <<file, config, now, last, bt, nq>>

\* settings menu 1: the answer is yes for y / yes / 1 and no for anything else
SetIncludeComments ==
  \E val \in {"y", "n", "maybe"} :
    /\ sh.pc = "settings"
    /\ INCLUDE_COMMENTS' = (val \in {"y", "yes", "1"})
    /\ sh' = [sh EXCEPT !.input = "ok"]
    /\ UNCHANGED <<file, BATCH_SIZE, envBATCH_SIZE, INCREMENTAL,
                   SELECTED_SOURCES, now, last, bt, nq>>

\* an unrecognized choice at the main menu or the settings menu, an
\* unrecognized filter choice or source token at the filter prompt, an
\* unrecognized status action at the status prompt: a message, the same prompt
InvalidChoice ==
  /\ sh.pc \in {"main", "settings", "list", "detail"}
  /\ sh' = [sh EXCEPT !.input = "invalid"]
  /\ UNCHANGED <<file, config, now, last, bt, nq>>

\* main menu 1: sync_data(), and on True current_data = load_data()
MenuSync ==
  \E listing \in Listings, exc \in {"none", "dump"} :
    /\ sh.pc = "main"
    /\ now < MaxClock
    /\ \E r \in {sync_data(file, INCREMENTAL, SELECTED_SOURCES,
                            EffectiveBatch(envBATCH_SIZE, BATCH_SIZE),
                            INCLUDE_COMMENTS, listing, {}, now + 1, exc)} :
          /\ file' = r.file
          /\ sh' = [sh EXCEPT !.input = "ok",
                              !.current_data =
                                 IF r.ret THEN load_data(r.file) ELSE @]
    /\ now' = now + 1
    /\ UNCHANGED <<config, last, bt, nq>>

\* main menu 2: list_questions(current_data); with no question it returns at
\* once and main_menu reloads
MenuList ==
  /\ sh.pc = "main"
  /\ IF all_questions(sh.current_data) = <<>>
     THEN sh' = [sh EXCEPT !.input = "ok", !.current_data = load_data(file)]
     ELSE sh' = [sh EXCEPT !.input = "ok", !.pc = "list",
                           !.all_questions = all_questions(sh.current_data)]
  /\ UNCHANGED <<file, config, now, last, bt, nq>>

\* the filters of the filter prompt: all, one source, one status
Filters ==
  {[by |-> "all", token |-> ""]}
    \cup {[by |-> "source", token |-> k] : k \in BucketSet}
    \cup {[by |-> "status", token |-> t] : t \in Statuses}

filtered_questions(questions, filter) ==
  IF filter.by = "source"
  THEN SelectSeq(questions, LAMBDA q : q.source = filter.token)
  ELSE IF filter.by = "status"
  THEN SelectSeq(questions, LAMBDA q : q.user_status = filter.token)
  ELSE questions

\* filter choice 1 / 2 / 3: the summaries of the matching questions of
\* all_questions are printed; with none, the filter prompt again
ListFilter ==
  \E filter \in Filters :
    /\ sh.pc = "list"
    /\ IF filtered_questions(sh.all_questions, filter) = <<>>
       THEN sh' = [sh EXCEPT !.input = "ok"]
       ELSE sh' = [sh EXCEPT !.input = "ok", !.pc = "shown",
                     !.shown = filtered_questions(sh.all_questions, filter)]
    /\ UNCHANGED <<file, config, now, last, bt, nq>>

\* a question number of the printed list: its details are displayed
ShownSelect ==
  \E q_index \in 1..Len(sh.shown) :
    /\ sh.pc = "shown"
    /\ sh' = [sh EXCEPT !.input = "ok", !.pc = "detail", !.selected = q_index]
    /\ UNCHANGED <<file, config, now, last, bt, nq>>

\* a number out of range or text that is no number: a message, the filter prompt
ShownInvalid ==
  /\ sh.pc = "shown"
  /\ sh' = [sh EXCEPT !.input = "invalid", !.pc = "list"]
  /\ UNCHANGED <<file, config, now, last, bt, nq>>

\* 'b' at the question-number prompt or at the status prompt
BackToList ==
  /\ sh.pc \in {"shown", "detail"}
  /\ sh' = [sh EXCEPT !.input = "ok", !.pc = "list", !.selected = 0]
  /\ UNCHANGED <<file, config, now, last, bt, nq>>

\* status action n / r / m: update_question_status(selected_q.id, ...), then
\* the filter prompt of the same list_questions call
DetailSetStatus ==
  \E s \in Statuses :
    /\ sh.pc = "detail"
    /\ now < MaxClock
    /\ file' = update_question_status(file, sh.shown[sh.selected].id, s, now + 1).file
    /\ now' = now + 1
    /\ sh' = [sh EXCEPT !.input = "ok", !.pc = "list", !.selected = 0]
    /\ UNCHANGED <<config, last, bt, nq>>

\* filter choice 4, 'm' at the question-number prompt, 'q' at the status
\* prompt: list_questions returns and main_menu reloads current_data
ListReturn ==
  /\ sh.pc \in {"list", "shown", "detail"}
  /\ sh' = [sh EXCEPT !.input = "ok", !.pc = "main", !.selected = 0,
                      !.all_questions = <<>>, !.shown = <<>>,
                      !.current_data = load_data(file)]
  /\ UNCHANGED <<file, config, now, last, bt, nq>>

NextShell ==
  \/ MenuSettings
  \/ SettingsBack
  \/ SetBatchSize
  \/ RejectBatchSize
  \/ SetIncludeComments
  \/ InvalidChoice
  \/ MenuSync
  \/ MenuList
  \/ ListFilter
  \/ ShownSelect
  \/ ShownInvalid
  \/ BackToList
  \/ DetailSetStatus
  \/ ListReturn

SpecShell == InitShell /\ [][NextShell]_vars

(* ------------------------------ claims -------------------------------- *)
\* the ids a bucket of the file holds (none when the file holds no dataset)
IdsIn(f, k) == {f.data[k][i].id : i \in 1..Len(f.data[k])}
AllIdsIn(f) == UNION {IdsIn(f, k) : k \in BucketSet}
\* the records of the file in scan order: simulation, then real, then famous
Flat(f) == f.data.simulation \o f.data.real \o f.data.famous
\* the position in scan order of the first record with id q (q is present)
FirstPos(f, q) ==
  CHOOSE i \in 1..Len(Flat(f)) :
    /\ Flat(f)[i].id = q
    /\ \A j \in 1..(i - 1) : Flat(f)[j].id # q
SameShape(f, g) == \A k \in BucketSet : Len(f.data[k]) = Len(g.data[k])
\* this step is a sync / a status update (the store operations tick the clock)
SyncStep == now' = now + 1 /\ last'.op = "sync"
UpdateStep == now' = now + 1 /\ last'.op = "update"

\* C1: an incremental sync whose requests all succeed asks the details
\* endpoint for no id the local bucket already holds, and for a bucket whose
\* local ids E the upstream lists again (E within U) the file after the sync
\* still contains every question of E, unchanged, next to the newly fetched.
C1_IncrementalAppends ==
  [][(SyncStep /\ last'.ret /\ last'.plain /\ INCREMENTAL)
       => /\ ~last'.refetched
          /\ \A k \in last'.covering : \A i \in 1..Len(file.data[k]) :
               \E j \in 1..Len(file'.data[k]) : file'.data[k][j] = file.data[k][i]]_vars

\* C2: a sync in which an exception is raised returns False and leaves the
\* dataset file exactly as it was before the sync.
C2_FailedSyncLeavesFile ==
  [][(SyncStep /\ last'.exc # "none" /\ file.kind = "ok")
       => (~last'.ret /\ file' = file)]_vars

\* C3: update_question_status with an id that no bucket holds returns False
\* and writes nothing: the file (missing and unparseable included) is as it was.
C3_UnknownIdNoWrite ==
  [][(UpdateStep /\ last'.id \notin AllIdsIn(file))
       => (~last'.ret /\ ~last'.wrote /\ file' = file)]_vars

\* an update that found nothing, on a file that holds other questions
C3_Witness ==
  /\ last.op = "update" /\ ~last.ret /\ ~last.wrote
  /\ file.kind = "ok" /\ AllIdsIn(file) # {} /\ last.id \notin AllIdsIn(file)

\* C4: update_question_status scans simulation, real, famous in this order and
\* each bucket in list order; the first record with the id gets the status and
\* the timestamp, every later record with the id is left as it was, and the
\* call returns True.
C4_FirstMatchOnly ==
  [][(UpdateStep /\ last'.id \in AllIdsIn(file))
       => LET p == FirstPos(file, last'.id)
          IN /\ last'.ret
             /\ SameShape(file, file')
             /\ Flat(file')[p].user_status = last'.status
             /\ Flat(file')[p].last_reviewed = now'
             /\ \A j \in (p + 1)..Len(Flat(file)) :
                  Flat(file)[j].id = last'.id => Flat(file')[j] = Flat(file)[j]]_vars

\* an update on an id that occurs twice: the first occurrence carries the new
\* timestamp, a later one does not
C4_Witness ==
  /\ last.op = "update" /\ last.ret
  /\ \E i, j \in 1..Len(Flat(file)) :
       /\ i < j
       /\ Flat(file)[i].id = last.id /\ Flat(file)[j].id = last.id
       /\ Flat(file)[i].last_reviewed = now
       /\ Flat(file)[j].last_reviewed # now

\* C5: a successful update changes one record and of it only user_status and
\* last_reviewed: meta, the length and order of the buckets and every other
\* record are as in the file before.
C5_UpdateFrame ==
  [][(UpdateStep /\ last'.ret)
       => /\ file'.kind = "ok"
          /\ file'.data.meta = file.data.meta
          /\ SameShape(file, file')
          /\ \E p \in 1..Len(Flat(file)) :
               /\ Flat(file') = [Flat(file) EXCEPT
                                   ![p].user_status = Flat(file')[p].user_status,
                                   ![p].last_reviewed = Flat(file')[p].last_reviewed]
               /\ Flat(file')[p] # Flat(file)[p]]_vars

\* a successful update of a synced file that holds another question as well
C5_Witness ==
  /\ last.op = "update" /\ last.ret
  /\ file.data.meta.last_sync # None
  /\ \E i \in 1..Len(Flat(file)) : Flat(file)[i].id # last.id

\* the persisted user_status / last_reviewed of the question update_question_
\* status finds under id q
StatusOf(f, q) == Flat(f)[FirstPos(f, q)].user_status
ReviewedOf(f, q) == Flat(f)[FirstPos(f, q)].last_reviewed

\* C6: a second update_question_status with the same (id, status), right after
\* a successful first one, returns True, persists the same user_status and a
\* later last_reviewed.
C6_SameStatusLaterReview ==
  [][(UpdateStep /\ last.op = "update" /\ last.ret
        /\ last'.id = last.id /\ last'.status = last.status)
       => /\ last'.ret
          /\ StatusOf(file', last.id) = last.status
          /\ StatusOf(file', last.id) = StatusOf(file, last.id)
          /\ ReviewedOf(file', last.id) > ReviewedOf(file, last.id)]_vars

\* the second of two equal calls has returned
C6_Witness == last.op = "update" /\ last.twice /\ last.ret

\* C7 as stated: an id present in a bucket of the file is present after every
\* later operation.
C7_NeverDeleted ==
  [][\A k \in BucketSet : IdsIn(file, k) \subseteq IdsIn(file', k)]_vars

\* C7 as amended: only a sync removes an id from a bucket of the file; a
\* status update, found or not, removes none.
C7_OnlySyncDeletes ==
  [][(\E k \in BucketSet : ~(IdsIn(file, k) \subseteq IdsIn(file', k)))
       => SyncStep]_vars

\* a status update has run on a file that holds questions in two buckets
C7_Witness ==
  /\ last.op = "update" /\ last.ret
  /\ \E k1, k2 \in BucketSet :
       k1 # k2 /\ IdsIn(file, k1) # {} /\ IdsIn(file, k2) # {}

\* index of the first record of bucket k with id q
PosIn(f, k, q) ==
  CHOOSE i \in 1..Len(f.data[k]) :
    /\ f.data[k][i].id = q
    /\ \A j \in 1..(i - 1) : f.data[k][j].id # q

\* C8: the user_status and last_reviewed of a question that stays in the file
\* change only in an update_question_status on its id; no sync changes them.
C8_StatusOnlyByUpdate ==
  [][\A k \in BucketSet : \A q \in IdsIn(file, k) \cap IdsIn(file', k) :
       (\/ file'.data[k][PosIn(file', k, q)].user_status
             # file.data[k][PosIn(file, k, q)].user_status
        \/ file'.data[k][PosIn(file', k, q)].last_reviewed
             # file.data[k][PosIn(file, k, q)].last_reviewed)
       => (UpdateStep /\ last'.id = q)]_vars

RECURSIVE Concat(_)
\* the concatenation of a sequence of sequences
Concat(ss) == IF ss = <<>> THEN <<>> ELSE Head(ss) \o Concat(Tail(ss))

\* ceil(n / b)
CeilDiv(n, b) == (n + b - 1) \div b

\* C9: get_question_details_batched issues ceil(n/b) requests for n ids and
\* batch size b; chunk k is the slice of the input from (k-1)*b+1 to
\* min(k*b, n), of size b except for the last, of size n - b*(ceil(n/b)-1);
\* the chunks in order concatenate to the input.
C9_BatchSplitting ==
  LET n == Len(bt.qids)
      b == bt.batch_size
      c == CeilDiv(n, b)
  IN /\ Len(bt.calls) <= c
     /\ \A k \in 1..Len(bt.calls) :
          /\ bt.calls[k] = SubSeq(bt.qids, (k - 1) * b + 1, Min(k * b, n))
          /\ Len(bt.calls[k]) = IF k < c THEN b ELSE n - b * (c - 1)
     /\ BatchDone => (Len(bt.calls) = c /\ Concat(bt.calls) = bt.qids)

\* a finished call of three requests whose last chunk is short (5 ids by 2)
C9_Witness ==
  /\ BatchDone /\ Len(bt.calls) = 3 /\ bt.batch_size > 1
  /\ Len(bt.calls[3]) < bt.batch_size

\* C10: every iteration issues one request, failed or not, so a failed chunk is
\* not asked again and the chunks after it are still asked; the list returned
\* is the concatenation, in chunk order, of the chunks whose request succeeded.
C10_FailedChunkSkipped ==
  /\ Len(bt.failed) = Len(bt.calls)
  /\ Len(bt.calls) * bt.batch_size = bt.i
  /\ BatchDone => bt.i - bt.batch_size < Len(bt.qids)
  /\ bt.all_details =
       Concat([k \in 1..Len(bt.calls) |->
                 IF bt.failed[k] THEN <<>> ELSE bt.calls[k]])

\* a finished call in which a chunk failed and a later one succeeded
C10_Witness ==
  /\ BatchDone
  /\ \E j, k \in 1..Len(bt.calls) :
       j < k /\ bt.failed[j] /\ ~bt.failed[k] /\ bt.all_details = bt.calls[k]

\* the string of an upstream 'correct' value, trimmed ("" when the key is absent)
CorrectText(value) == IF value.kind = "str" THEN strip(value.s) ELSE <<>>

\* the answer C11 states for a correct string: for a string of digits the
\* labels of its digits in 1..4, in order; otherwise its comma-separated
\* pieces, trimmed and upper-cased; nothing for the empty string
ClaimedAnswer(text) ==
  IF text = <<>> THEN <<>>
  ELSE IF \A i \in 1..Len(text) : text[i] \in AsciiDigits \cup OtherDigits
  THEN LET kept == SelectSeq(text, LAMBDA c : c \in {"1", "3"})
       IN [i \in 1..Len(kept) |-> IF kept[i] = "1" THEN <<"A">> ELSE <<"C">>]
  ELSE LET pieces == split(text, <<>>)
       IN [i \in 1..Len(pieces) |-> upper(strip(pieces[i]))]

\* C11: _normalize_question returns, for every 'correct' string (or none), the
\* answer of one of two branches: for a string of digits the labels
\* {A,B,C,D}[d-1] of its digits d in 1..4 in digit order, every other digit
\* dropped; otherwise the comma-separated pieces trimmed and upper-cased;
\* "13" gives [A,C], "b,d" gives [B,D], "5" gives [], "" gives [].
C11_AnswerDecoding ==
  (nq.called /\ nq.question_data.correct.kind # "null")
    => /\ ~nq.raised
       /\ nq.answer = ClaimedAnswer(CorrectText(nq.question_data.correct))

\* C12: the content of a normalized question is never null: it is a non-empty
\* string exactly when the upstream title is a non-empty string, and the
\* empty string when the title is absent, empty or null.
C12_ContentNeverNull ==
  (nq.called /\ ~nq.raised)
    => /\ nq.content.kind = "str"
       /\ nq.content.s # <<>>
            <=> (nq.question_data.title.kind = "str"
                   /\ nq.question_data.title.s # <<>>)

\* C13: whenever the shell has printed a list of summaries or shows the
\* details of a question (after any successful sync and any status update
\* made in the list flow), each question it shows carries the user_status and
\* last_reviewed persisted in the file: it is a record of the file as it is.
C13_ShownIsPersisted ==
  (sh.pc \in {"shown", "detail"} /\ file.kind = "ok")
    => \A i \in 1..Len(sh.shown) :
         \E j \in 1..Len(Flat(file)) : Flat(file)[j] = sh.shown[i]

\* C14: after a sync, no bucket of the file holds two questions with the same
\* id, whatever the upstream listed (here: no roll, paper or chapter lists an
\* id twice, but two of them may list the same id).
C14_IdsUniquePerBucket ==
  [][(SyncStep /\ last'.ret /\ last'.once)
       => \A k \in BucketSet : \A i, j \in 1..Len(file'.data[k]) :
            file'.data[k][i].id = file'.data[k][j].id => i = j]_vars

\* C15: input the shell answers with an invalid-input message (a batch size
\* that is no number, zero or negative; an unrecognized menu choice, filter
\* choice, source token or status action) changes neither the runtime
\* configuration nor the dataset file, and the menu goes on; the batch size,
\* positive at the start, is positive after any sequence of shell actions.
C15_InvalidInputMutatesNothing ==
  /\ [](BATCH_SIZE > 0 /\ EffectiveBatch(envBATCH_SIZE, BATCH_SIZE) > 0)
  /\ [][sh'.input = "invalid"
          => /\ config' = config
             /\ file' = file
             /\ sh'.pc \in {"main", "settings", "list", "detail"}
             /\ sh'.current_data = sh.current_data]_vars

\* a batch size was set in Settings and a later batch size was rejected
C15_Witness ==
  /\ sh.pc = "settings" /\ sh.input = "invalid"
  /\ BATCH_SIZE # DefaultBatch /\ envBATCH_SIZE = {BATCH_SIZE}

\* C16: a sync in which every request fails returns True and overwrites the
\* file with a dataset of three empty buckets stamped with the time of the
\* sync: what the file held before is gone.
C16_AllFailedSyncEmptiesFile ==
  [][(SyncStep /\ last'.allfailed)
       => /\ last'.ret /\ last'.wrote
          /\ file' = OkFile([EmptyData EXCEPT !.meta.last_sync = now'])]_vars

\* such a sync has run on a file that held questions
C16_Witness ==
  /\ last.op = "sync" /\ last.allfailed /\ last.ret /\ last.emptied
  /\ file.kind = "ok" /\ AllIdsIn(file) = {}

====
